---- MODULE Spec2Model ----
(***************************************************************************)
(* Model of lambda/process-email/src/index.ts: the module initialisation   *)
(* (environment lookup, bucket check) and the SES handler that fetches the *)
(* raw message from S3, determines its size and logs the outcome.          *)
(* The address resolver and the payload normaliser described by the        *)
(* specification (sections 4.1 - 4.3) are modelled from the specification. *)
(***************************************************************************)
EXTENDS Integers, Sequences, FiniteSets, TLC

(***************************************************************************)
(* Bounds of the model.                                                    *)
(***************************************************************************)
MaxRecords == 2
MaxChunks == 2
MaxInvocations == 2
MaxBodyLen == 4

(***************************************************************************)
(* Optional values: undefined is the empty tuple, a value v is <<v>>.      *)
(***************************************************************************)
None == <<>>
Some(v) == <<v>>
IsSome(o) == o # <<>>
Get(o) == o[1]

RECURSIVE SeqsUpTo(_, _)
SeqsUpTo(S, n) ==
  IF n = 0 THEN {<<>>}
  ELSE LET shorter == SeqsUpTo(S, n - 1)
       IN shorter \cup {Append(s, e) : s \in {t \in shorter : Len(t) = n - 1}, e \in S}

(***************************************************************************)
(* process.env as seen when the module is loaded.                          *)
(* The handler module reads EMAIL_BUCKET and EMAIL_PREFIX only; the two     *)
(* ingestion settings are present in the environment but never looked up.  *)
(***************************************************************************)
FullEnv ==
  [EMAIL_BUCKET |-> Some("inbox"), EMAIL_PREFIX |-> Some("in/"),
   INGEST_URL |-> Some("https://ingest"), INGEST_TOKEN |-> Some("secret")]
Settings == {"EMAIL_BUCKET", "EMAIL_PREFIX", "INGEST_URL", "INGEST_TOKEN"}
Envs ==
  {FullEnv}
    \cup {[FullEnv EXCEPT ![k] = None] : k \in Settings}
    \cup {[FullEnv EXCEPT ![k] = Some("")] : k \in {"EMAIL_BUCKET", "EMAIL_PREFIX"}}

(***************************************************************************)
(* SES events.  Records may be absent; an element may lack its ses field.  *)
(***************************************************************************)
Mails ==
  { [messageId |-> "m1", destination |-> <<"a@inbox">>, source |-> "s1@relay"],
    [messageId |-> "m2", destination |-> <<"b@inbox", "c@inbox">>, source |-> "s2@relay"] }
Elements == {[ses |-> None]} \cup {[ses |-> Some([mail |-> m])] : m \in Mails}
Events == {[Records |-> None]} \cup {[Records |-> Some(s)] : s \in SeqsUpTo(Elements, MaxRecords)}

(***************************************************************************)
(* Body content.  A character is "a" (one UTF-8 byte) or "e'" (two bytes); *)
(* a Buffer / Uint8Array is a sequence of byte values.                     *)
(***************************************************************************)
Chars == {"a", "e'"}
Utf8Width(c) == IF c = "a" THEN 1 ELSE 2
Strings == {<<>>, <<"a">>, <<"e'", "a">>}
ByteArrays == {<<>>, <<0, 0>>}
Chunks == {[type |-> "string", data |-> s] : s \in Strings}
            \cup {[type |-> "buffer", data |-> b] : b \in ByteArrays \ {<<>>}}

RECURSIVE Utf8Length(_)
Utf8Length(s) == IF s = <<>> THEN 0 ELSE Utf8Width(Head(s)) + Utf8Length(Tail(s))

\* Buffer.byteLength(chunk): UTF-8 length of a string, length of a buffer.
BufferByteLength(chunk) ==
  IF chunk.type = "string" THEN Utf8Length(chunk.data) ELSE Len(chunk.data)

Bodies ==
  {[kind |-> "undefined"]}
    \cup {[kind |-> "sdkStream", bytes |-> b] : b \in ByteArrays}
    \cup {[kind |-> "readable", chunks |-> cs] : cs \in SeqsUpTo(Chunks, MaxChunks)}
    \cup {[kind |-> "other", value |-> c] : c \in Chunks}
    \cup {[kind |-> "other", value |-> [type |-> "object", data |-> <<>>]]}
\* With a ContentLength the body is left alone, so two bodies stand for all.
HintedBodies ==
  {[kind |-> "undefined"],
   [kind |-> "readable", chunks |-> <<[type |-> "string", data |-> <<"e'", "a">>]>>]}
Responses ==
  {[ContentLength |-> None, Body |-> b] : b \in Bodies}
    \cup {[ContentLength |-> Some(n), Body |-> b] : n \in {0, 3}, b \in HintedBodies}

S3Errors == {[name |-> "NoSuchKey"], [name |-> "ServiceUnavailable"]}
ReadErrors == {[name |-> "StreamError"]}
TypeError == [name |-> "TypeError"]

VARIABLES
  env,            \* process.env
  module,         \* "unloaded", "loaded" or "failed"
  EMAIL_BUCKET,   \* module constant (optional string)
  EMAIL_PREFIX,   \* module constant (string)
  pc,             \* position of the running handler invocation
  event,          \* the event of the current invocation
  messageId,
  objectKey,
  response,       \* the resolved GetObject output, if any
  size,           \* accumulator of consumeBody's stream loop
  pending,        \* chunks of the stream not yet delivered
  bodyRead,       \* whether consumeBody touched the body's content
  getRequests,    \* GetObject commands sent by this invocation
  logs,           \* console output of this invocation
  outcome,        \* how the invocation's promise settled
  raised,         \* the error an awaited operation failed with, if any
  postRequests,   \* HTTP requests sent to the ingestion endpoint
  invocations,    \* number of invocations started
  input,          \* input handed to the resolver or the normaliser
  output          \* what the resolver or the normaliser produced for it

vars == <<env, module, EMAIL_BUCKET, EMAIL_PREFIX, pc, event, messageId, objectKey,
          response, size, pending, bodyRead, getRequests, logs, outcome, raised,
          postRequests, invocations, input, output>>

moduleVars == <<env, module, EMAIL_BUCKET, EMAIL_PREFIX, input, output>>

HandlerInit ==
  /\ module = "unloaded"
  /\ EMAIL_BUCKET = None
  /\ EMAIL_PREFIX = ""
  /\ pc = "idle"
  /\ event = [Records |-> None]
  /\ messageId = ""
  /\ objectKey = ""
  /\ response = None
  /\ size = 0
  /\ pending = <<>>
  /\ bodyRead = FALSE
  /\ getRequests = <<>>
  /\ logs = <<>>
  /\ outcome = [kind |-> "none", error |-> None]
  /\ raised = None
  /\ postRequests = <<>>
  /\ invocations = 0

Init ==
  /\ env \in Envs
  /\ HandlerInit
  /\ input = [kind |-> "none"]
  /\ output = None

\* JavaScript truthiness of an optional string: undefined and "" are falsy.
Truthy(o) == IsSome(o) /\ Get(o) # ""

\* Variant: || in place of ??, so that an empty prefix is replaced as well.
EmailPrefixOr(e) == IF Truthy(e.EMAIL_PREFIX) THEN Get(e.EMAIL_PREFIX) ELSE "raw/"

\* process.env.EMAIL_PREFIX ?? 'raw/'
EmailPrefix(e) == IF IsSome(e.EMAIL_PREFIX) THEN Get(e.EMAIL_PREFIX) ELSE "raw/"

\* Variant: || in place of ??, so that a ContentLength of 0 is passed over.
HasLengthOr(resp) == IsSome(resp.ContentLength) /\ Get(resp.ContentLength) # 0

\* response.ContentLength ?? ... : the left operand is used unless undefined.
HasLength(resp) == IsSome(resp.ContentLength)

(***************************************************************************)
(* Module initialisation, lines 5 - 12.                                    *)
(***************************************************************************)
LoadModule ==
  /\ module = "unloaded"
  /\ EMAIL_BUCKET' = env.EMAIL_BUCKET
  /\ EMAIL_PREFIX' = EmailPrefix(env)
  /\ module' = IF ~Truthy(env.EMAIL_BUCKET) THEN "failed" ELSE "loaded"
  /\ UNCHANGED <<env, pc, event, messageId, objectKey, response, size, pending,
                 bodyRead, getRequests, logs, outcome, raised, postRequests,
                 invocations, input, output>>

\* Variant: the first element that carries an ses payload, wherever it is.
FirstRecordAny(ev) ==
  IF ~IsSome(ev.Records) THEN None
  ELSE LET rs == Get(ev.Records)
           withSes == {i \in 1..Len(rs) : IsSome(rs[i].ses)}
       IN IF withSes = {} THEN None
          ELSE rs[CHOOSE i \in withSes : \A j \in withSes : i <= j].ses

\* Variant: the last element of Records instead of the first.
FirstRecordLast(ev) ==
  IF ~IsSome(ev.Records) THEN None
  ELSE IF Get(ev.Records) = <<>> THEN None
  ELSE Get(ev.Records)[Len(Get(ev.Records))].ses

\* event.Records?.[0]?.ses
FirstRecord(ev) ==
  IF ~IsSome(ev.Records) THEN None
  ELSE IF Get(ev.Records) = <<>> THEN None
  ELSE Get(ev.Records)[1].ses

CanInvoke ==
  /\ module = "loaded"
  /\ pc \in {"idle", "done"}
  /\ invocations < MaxInvocations

(***************************************************************************)
(* handler, lines 15 - 19: no SES record in the event.                     *)
(***************************************************************************)
HandlerNoRecord(ev) ==
  /\ CanInvoke
  /\ ~IsSome(FirstRecord(ev))
  /\ invocations' = invocations + 1
  /\ event' = ev
  /\ logs' = <<[stream |-> "warn",
                message |-> "process-email: No SES record found in event payload",
                payload |-> ev]>>
  /\ getRequests' = <<>>
  /\ outcome' = [kind |-> "resolved", error |-> None]
  /\ pc' = "done"
  /\ messageId' = ""
  /\ objectKey' = ""
  /\ response' = None
  /\ size' = 0
  /\ pending' = <<>>
  /\ bodyRead' = FALSE
  /\ raised' = None
  /\ postRequests' = <<>>
  /\ UNCHANGED moduleVars

(***************************************************************************)
(* handler, lines 15 - 30: a record is present, the GetObject is sent.     *)
(***************************************************************************)
HandlerSendGet(ev) ==
  /\ CanInvoke
  /\ IsSome(FirstRecord(ev))
  /\ LET record == Get(FirstRecord(ev))
         id == record.mail.messageId
         key == EMAIL_PREFIX \o id
     IN /\ messageId' = id
        /\ objectKey' = key
        /\ getRequests' = <<[Bucket |-> Get(EMAIL_BUCKET), Key |-> key]>>
  /\ invocations' = invocations + 1
  /\ event' = ev
  /\ logs' = <<>>
  /\ outcome' = [kind |-> "none", error |-> None]
  /\ pc' = "awaitGet"
  /\ response' = None
  /\ size' = 0
  /\ pending' = <<>>
  /\ bodyRead' = FALSE
  /\ raised' = None
  /\ postRequests' = <<>>
  /\ UNCHANGED moduleVars

\* handler, lines 34 - 48 and the return: the success record.
LogSuccess(sz) ==
  LET record == Get(FirstRecord(event))
  IN /\ logs' = Append(logs,
                  [stream |-> "log",
                   payload |-> [level |-> "INFO",
                                action |-> "process-email",
                                messageId |-> messageId,
                                objectKey |-> objectKey,
                                size |-> sz,
                                recipients |-> record.mail.destination,
                                source |-> record.mail.source]])
     /\ outcome' = [kind |-> "resolved", error |-> None]
     /\ pc' = "done"

\* Variant: the catch block throws a new error that wraps the caught one.
CatchAndWrap(error) ==
  /\ logs' = Append(logs,
               [stream |-> "error",
                message |-> "process-email: Failed to read message from S3",
                payload |-> [messageId |-> messageId,
                             bucket |-> Get(EMAIL_BUCKET),
                             objectKey |-> objectKey,
                             error |-> error]])
  /\ outcome' = [kind |-> "rejected",
                 error |-> Some([name |-> "Error", cause |-> error])]
  /\ pc' = "done"

\* handler, lines 49 - 57: the catch block.
CatchAndRethrow(error) ==
  /\ logs' = Append(logs,
               [stream |-> "error",
                message |-> "process-email: Failed to read message from S3",
                payload |-> [messageId |-> messageId,
                             bucket |-> Get(EMAIL_BUCKET),
                             objectKey |-> objectKey,
                             error |-> error]])
  /\ outcome' = [kind |-> "rejected", error |-> Some(error)]
  /\ pc' = "done"

frame == <<env, module, EMAIL_BUCKET, EMAIL_PREFIX, event, messageId, objectKey,
           getRequests, postRequests, invocations, input, output>>

(***************************************************************************)
(* s3.send rejects (line 25): object missing or store unavailable.         *)
(***************************************************************************)
GetObjectRejected(error) ==
  /\ pc = "awaitGet"
  /\ raised' = Some(error)
  /\ CatchAndRethrow(error)
  /\ UNCHANGED <<frame, response, size, pending, bodyRead>>

(***************************************************************************)
(* s3.send resolves and ContentLength is supplied (line 32, left of ??).   *)
(***************************************************************************)
GetObjectWithLength(resp) ==
  /\ pc = "awaitGet"
  /\ HasLength(resp)
  /\ response' = Some(resp)
  /\ LogSuccess(Get(resp.ContentLength))
  /\ UNCHANGED <<frame, size, pending, bodyRead, raised>>

(***************************************************************************)
(* s3.send resolves without ContentLength and the body is undefined        *)
(* (consumeBody, lines 61 - 63).                                           *)
(***************************************************************************)
ConsumeNoBody(resp) ==
  /\ pc = "awaitGet"
  /\ ~HasLength(resp)
  /\ resp.Body.kind = "undefined"
  /\ response' = Some(resp)
  /\ LogSuccess(0)
  /\ UNCHANGED <<frame, size, pending, bodyRead, raised>>

(***************************************************************************)
(* consumeBody, lines 65 - 66: the body offers transformToByteArray, which *)
(* is called and awaited.                                                  *)
(***************************************************************************)
ConsumeTransformStart(resp) ==
  /\ pc = "awaitGet"
  /\ ~HasLength(resp)
  /\ resp.Body.kind = "sdkStream"
  /\ response' = Some(resp)
  /\ bodyRead' = TRUE
  /\ pc' = "awaitBytes"
  /\ UNCHANGED <<frame, size, pending, logs, outcome, raised>>

\* consumeBody, line 67: bytes.length, then the success record.
ConsumeTransformDone ==
  /\ pc = "awaitBytes"
  /\ LogSuccess(Len(Get(response).Body.bytes))
  /\ UNCHANGED <<frame, response, size, pending, bodyRead, raised>>

\* transformToByteArray rejects.
ConsumeTransformFailed(error) ==
  /\ pc = "awaitBytes"
  /\ raised' = Some(error)
  /\ CatchAndRethrow(error)
  /\ UNCHANGED <<frame, response, size, pending, bodyRead>>

(***************************************************************************)
(* consumeBody, lines 70 - 72: the body is a Readable; iteration starts.   *)
(***************************************************************************)
ConsumeReadableStart(resp) ==
  /\ pc = "awaitGet"
  /\ ~HasLength(resp)
  /\ resp.Body.kind = "readable"
  /\ response' = Some(resp)
  /\ bodyRead' = TRUE
  /\ size' = 0
  /\ pending' = resp.Body.chunks
  /\ pc' = "reading"
  /\ UNCHANGED <<frame, logs, outcome, raised>>

\* consumeBody, lines 72 - 74: one chunk is delivered.
ConsumeReadableChunk ==
  /\ pc = "reading"
  /\ pending # <<>>
  /\ size' = size + BufferByteLength(Head(pending))
  /\ pending' = Tail(pending)
  /\ UNCHANGED <<frame, response, bodyRead, pc, logs, outcome, raised>>

\* consumeBody, line 75: the stream ended; then the success record.
ConsumeReadableEnd ==
  /\ pc = "reading"
  /\ pending = <<>>
  /\ LogSuccess(size)
  /\ UNCHANGED <<frame, response, size, pending, bodyRead, raised>>

\* The stream errors during iteration.
ConsumeReadableFailed(error) ==
  /\ pc = "reading"
  /\ raised' = Some(error)
  /\ CatchAndRethrow(error)
  /\ UNCHANGED <<frame, response, size, pending, bodyRead>>

(***************************************************************************)
(* consumeBody, lines 78 - 79: any other body goes through Buffer.from,    *)
(* which throws a TypeError for a value it cannot convert.                 *)
(***************************************************************************)
ConsumeBufferFrom(resp) ==
  /\ pc = "awaitGet"
  /\ ~HasLength(resp)
  /\ resp.Body.kind = "other"
  /\ response' = Some(resp)
  /\ bodyRead' = TRUE
  /\ IF resp.Body.value.type = "object"
       THEN raised' = Some(TypeError) /\ CatchAndRethrow(TypeError)
       ELSE raised' = raised /\ LogSuccess(BufferByteLength(resp.Body.value))
  /\ UNCHANGED <<frame, size, pending>>

Next ==
  \/ LoadModule
  \/ \E ev \in Events : HandlerNoRecord(ev)
  \/ \E ev \in Events : HandlerSendGet(ev)
  \/ \E e \in S3Errors : GetObjectRejected(e)
  \/ \E r \in Responses : GetObjectWithLength(r)
  \/ \E r \in Responses : ConsumeNoBody(r)
  \/ \E r \in Responses : ConsumeTransformStart(r)
  \/ ConsumeTransformDone
  \/ \E e \in ReadErrors : ConsumeTransformFailed(e)
  \/ \E r \in Responses : ConsumeReadableStart(r)
  \/ ConsumeReadableChunk
  \/ ConsumeReadableEnd
  \/ \E e \in ReadErrors : ConsumeReadableFailed(e)
  \/ \E r \in Responses : ConsumeBufferFrom(r)

Spec == Init /\ [][Next]_vars

(***************************************************************************)
(* Address flattening, sender resolution and body truncation (sections     *)
(* 4.1 - 4.3 of the specification).  A header text is the sequence of its  *)
(* tokens; the address pattern and the case and whitespace conversions are *)
(* given on the tokens that occur.                                         *)
(***************************************************************************)
DefaultMaxBodyChars == 20000

OriginalSenderHeaders ==
  <<"x-original-from", "x-original-sender", "x-google-original-from",
    "x-forwarded-for", "original-from", "resent-from", "reply-to">>

UnknownSender == [address |-> "unknown@sender", name |-> None]

\* local-part@domain with a TLD of two or more letters, case-insensitive.
MatchesAddressPattern(tok) ==
  tok \in {"Real@Author.com", "relay@forwarder.com", "person@x.com", "C@Common.org"}

ContainsAt(tok) == tok \in {"Real@Author.com", "relay@forwarder.com", "person@x.com",
                            "C@Common.org", "Admin@LocalHost", "Relay@MX.example.com"}

LowerCase(str) ==
  CASE str = "Real@Author.com" -> "real@author.com"
    [] str = "C@Common.org" -> "c@common.org"
    [] str = "Admin@LocalHost" -> "admin@localhost"
    [] str = "Relay@MX.example.com" -> "relay@mx.example.com"
    [] OTHER -> str

Trim(str) ==
  CASE str = " Jane " -> "Jane"
    [] str = "  " -> ""
    [] OTHER -> str

\* The name of a canonical address: trimmed, absent when empty.
CanonicalName(name) ==
  IF IsSome(name) /\ Trim(Get(name)) # "" THEN Some(Trim(Get(name))) ELSE None

RECURSIVE JoinTokens(_)
JoinTokens(text) ==
  IF text = <<>> THEN ""
  ELSE IF Len(text) = 1 THEN text[1]
  ELSE text[1] \o " " \o JoinTokens(Tail(text))

RECURSIVE MatchedAddresses(_)
MatchedAddresses(text) ==
  IF text = <<>> THEN <<>>
  ELSE (IF MatchesAddressPattern(Head(text))
          THEN <<[address |-> LowerCase(Head(text)), name |-> None]>>
          ELSE <<>>) \o MatchedAddresses(Tail(text))

\* 4.1, plain string: the pattern's matches; failing that, the whole string
\* when it contains an @; otherwise nothing.
ParseAddressText(text) ==
  LET matched == MatchedAddresses(text)
  IN IF matched # <<>> THEN matched
     ELSE IF \E i \in 1..Len(text) : ContainsAt(text[i])
       THEN <<[address |-> LowerCase(JoinTokens(text)), name |-> None]>>
     ELSE <<>>

\* 4.1: arrays element by element, a group through its value, a structured
\* address as it is, a string through the pattern.
RECURSIVE Flatten(_)
Flatten(in) ==
  CASE in.kind = "absent" -> <<>>
    [] in.kind = "text" -> ParseAddressText(in.text)
    [] in.kind = "address" ->
         <<[address |-> LowerCase(in.address), name |-> CanonicalName(in.name)]>>
    [] in.kind = "list" ->
         IF in.items = <<>> THEN <<>>
         ELSE Flatten(Head(in.items)) \o Flatten([in EXCEPT !.items = Tail(in.items)])
    [] in.kind = "group" -> Flatten([kind |-> "list", items |-> in.value])

\* 4.2 step 1: the original-sender headers in their order, from the i-th on.
RECURSIVE FromOriginalHeaders(_, _)
FromOriginalHeaders(headers, i) ==
  IF i > Len(OriginalSenderHeaders) THEN <<>>
  ELSE LET value == headers[OriginalSenderHeaders[i]]
       IN IF ~IsSome(value) \/ Get(value) = <<>>
            THEN FromOriginalHeaders(headers, i + 1)
            ELSE LET addrs == ParseAddressText(Get(value))
                 IN IF addrs # <<>> THEN addrs
                    ELSE FromOriginalHeaders(headers, i + 1)

\* 4.2 step 4: the envelope's commonHeadersFrom entries in their order.
RECURSIVE FromCommonHeaders(_)
FromCommonHeaders(entries) ==
  IF entries = <<>> THEN <<>>
  ELSE LET addrs == ParseAddressText(Head(entries))
       IN IF addrs # <<>> THEN addrs ELSE FromCommonHeaders(Tail(entries))

\* Variant: the visible From is consulted before the original-sender headers.
ResolveSenderFromFirst(parsed, envelope) ==
  LET visible == Flatten(parsed.from)
      original == FromOriginalHeaders(parsed.headers, 1)
      reply == Flatten(parsed.replyTo)
      common == IF IsSome(envelope.commonHeadersFrom)
                  THEN FromCommonHeaders(Get(envelope.commonHeadersFrom)) ELSE <<>>
  IN IF visible # <<>> THEN visible[1]
     ELSE IF original # <<>> THEN original[1]
     ELSE IF reply # <<>> THEN reply[1]
     ELSE IF common # <<>> THEN common[1]
     ELSE IF Truthy(envelope.source)
       THEN [address |-> LowerCase(Get(envelope.source)), name |-> None]
     ELSE UnknownSender

\* 4.2: the cascade.
ResolveSender(parsed, envelope) ==
  LET original == FromOriginalHeaders(parsed.headers, 1)
  IN IF original # <<>> THEN original[1]
     ELSE LET visible == Flatten(parsed.from)
     IN IF visible # <<>> THEN visible[1]
     ELSE LET reply == Flatten(parsed.replyTo)
     IN IF reply # <<>> THEN reply[1]
     ELSE LET common == IF IsSome(envelope.commonHeadersFrom)
                          THEN FromCommonHeaders(Get(envelope.commonHeadersFrom))
                          ELSE <<>>
     IN IF common # <<>> THEN common[1]
     ELSE IF Truthy(envelope.source)
       THEN [address |-> LowerCase(Get(envelope.source)), name |-> None]
     ELSE UnknownSender

\* 4.3 / section 6: the configured limit when it is a positive number, the
\* default otherwise.
MaxBodyChars(setting) ==
  IF IsSome(setting) /\ Get(setting).numeric /\ Get(setting).n > 0
    THEN Get(setting).n
    ELSE DefaultMaxBodyChars

\* Variant: an empty body is passed on as the empty string.
TruncateKeepEmpty(body, limit) ==
  IF ~IsSome(body) THEN None
  ELSE IF Len(Get(body)) > limit THEN Some(SubSeq(Get(body), 1, limit))
  ELSE body

\* 4.3: cut to the limit; absent or empty content becomes null.
Truncate(body, limit) ==
  IF ~IsSome(body) \/ Get(body) = <<>> THEN None
  ELSE IF Len(Get(body)) > limit THEN Some(SubSeq(Get(body), 1, limit))
  ELSE body

(***************************************************************************)
(* Inputs of the resolver and of the normaliser.                           *)
(***************************************************************************)
HeaderNames == {OriginalSenderHeaders[i] : i \in 1..Len(OriginalSenderHeaders)}
HeaderValues == {<<>>, <<"bad-token">>, <<"Real@Author.com">>, <<"bad-token", "person@x.com">>}
\* Header maps in which at most two of the original-sender headers occur.
HeaderMaps ==
  {[n \in HeaderNames |-> IF n = a THEN va ELSE IF n = b THEN vb ELSE None] :
     a \in HeaderNames, b \in HeaderNames,
     va \in {None} \cup {Some(v) : v \in HeaderValues},
     vb \in {Some(v) : v \in HeaderValues}}

Relay == [kind |-> "address", address |-> "relay@forwarder.com", name |-> Some(" Jane ")]
FromInputs ==
  { [kind |-> "absent"],
    [kind |-> "group", value |-> <<>>],
    [kind |-> "group", value |-> <<Relay>>],
    [kind |-> "text", text |-> <<"Admin@LocalHost">>] }
ReplyToInputs ==
  { [kind |-> "absent"],
    [kind |-> "list", items |-> <<[kind |-> "group", value |-> <<>>],
                                 [kind |-> "address", address |-> "person@x.com",
                                  name |-> Some("  ")]>>] }
CommonFromInputs == {None, Some(<<<<"bad-token">>, <<"C@Common.org">>>>)}
SourceInputs == {None, Some(""), Some("Relay@MX.example.com")}

ResolveInputs ==
  {[kind |-> "resolve",
    parsed |-> [headers |-> h, from |-> f, replyTo |-> r],
    envelope |-> [commonHeadersFrom |-> c, source |-> src]] :
     h \in HeaderMaps, f \in FromInputs, r \in ReplyToInputs,
     c \in CommonFromInputs, src \in SourceInputs}

BodyChars == {"x", "y"}
BodyInputs == {None} \cup {Some(b) : b \in SeqsUpTo(BodyChars, MaxBodyLen)}
LimitSettings ==
  {None, Some([numeric |-> FALSE, n |-> 0])}
    \cup {Some([numeric |-> TRUE, n |-> k]) : k \in {-1, 0, 2, 3}}
NormalizeInputs ==
  {[kind |-> "normalize", text |-> t, html |-> h, setting |-> st] :
     t \in BodyInputs, h \in BodyInputs, st \in LimitSettings}

InitNormalize ==
  /\ env = FullEnv
  /\ HandlerInit
  /\ input \in ResolveInputs \cup NormalizeInputs
  /\ output = None

handlerVars == <<env, module, EMAIL_BUCKET, EMAIL_PREFIX, pc, event, messageId,
                 objectKey, response, size, pending, bodyRead, getRequests, logs,
                 outcome, raised, postRequests, invocations>>

\* 4.2 applied to a parsed message and its envelope.
ResolveStep ==
  /\ input.kind = "resolve"
  /\ output = None
  /\ output' = Some([from |-> ResolveSender(input.parsed, input.envelope)])
  /\ UNCHANGED <<handlerVars, input>>

\* 4.3 applied to the text and the HTML body.
NormalizeStep ==
  /\ input.kind = "normalize"
  /\ output = None
  /\ LET limit == MaxBodyChars(input.setting)
     IN output' = Some([text |-> Truncate(input.text, limit),
                        html |-> Truncate(input.html, limit)])
  /\ UNCHANGED <<handlerVars, input>>

NextNormalize == ResolveStep \/ NormalizeStep

SpecNormalize == InitNormalize /\ [][NextNormalize]_vars

(***************************************************************************)
(* Vocabulary of the properties.                                           *)
(***************************************************************************)
\* The event carries a delivery record: Records is present, non-empty and
\* its first element has an ses payload.
HasDeliveryRecord(ev) ==
  /\ IsSome(ev.Records)
  /\ Len(Get(ev.Records)) >= 1
  /\ IsSome(Get(ev.Records)[1].ses)

FirstMail == Get(Get(event.Records)[1].ses).mail

Invoked == invocations > 0
Finished == Invoked /\ pc = "done"

LogsOn(stream) == {i \in 1..Len(logs) : logs[i].stream = stream}

\* The prefix as configured in the environment.
ConfiguredPrefix == IF env.EMAIL_PREFIX = None THEN "raw/" ELSE Get(env.EMAIL_PREFIX)

\* Number of bytes of a piece of content, counted byte by byte.
RECURSIVE ContentBytes(_)
ContentBytes(chunk) ==
  IF chunk.data = <<>> THEN 0
  ELSE (IF chunk.type = "string" /\ Head(chunk.data) # "a" THEN 2 ELSE 1)
         + ContentBytes([chunk EXCEPT !.data = Tail(chunk.data)])

RECURSIVE SumBytes(_)
SumBytes(chunks) ==
  IF chunks = <<>> THEN 0 ELSE ContentBytes(Head(chunks)) + SumBytes(Tail(chunks))

BodyBytes(body) ==
  CASE body.kind = "undefined" -> 0
    [] body.kind = "sdkStream" -> Len(body.bytes)
    [] body.kind = "readable" -> SumBytes(body.chunks)
    [] body.kind = "other" -> ContentBytes(body.value)

(***************************************************************************)
(* C1: an invocation whose event carries no delivery record (Records       *)
(* absent, empty, or first element without ses) completes successfully,    *)
(* issues no GetObject and writes nothing but a warning.                   *)
(***************************************************************************)
C1_NoRecordIsNoOp ==
  (Invoked /\ ~HasDeliveryRecord(event)) =>
    /\ pc = "done"
    /\ outcome = [kind |-> "resolved", error |-> None]
    /\ getRequests = <<>>
    /\ logs # <<>>
    /\ \A i \in 1..Len(logs) : logs[i].stream = "warn"

\* A finished invocation whose first element has no ses payload although a
\* later element has one.
C1_Witness ==
  /\ Finished
  /\ IsSome(event.Records)
  /\ Len(Get(event.Records)) = 2
  /\ ~IsSome(Get(event.Records)[1].ses)
  /\ IsSome(Get(event.Records)[2].ses)
  /\ LogsOn("warn") # {}

(***************************************************************************)
(* C2: when the GetObject or the reading of the body fails, the invocation *)
(* writes one error record carrying message id, bucket and object key and  *)
(* is rejected with the very error that was raised; the GetObject is not   *)
(* sent again.                                                             *)
(***************************************************************************)
C2_FailureRethrownUnchanged ==
  IsSome(raised) =>
    /\ pc = "done"
    /\ outcome = [kind |-> "rejected", error |-> raised]
    /\ Len(getRequests) = 1
    /\ Cardinality(LogsOn("error")) = 1
    /\ LogsOn("log") = {}
    /\ \A i \in LogsOn("error") :
         logs[i].payload = [messageId |-> FirstMail.messageId,
                            bucket |-> Get(env.EMAIL_BUCKET),
                            objectKey |-> getRequests[1].Key,
                            error |-> Get(raised)]

\* A stream that fails after a chunk has already been counted.
C2_Witness ==
  /\ Finished
  /\ raised = Some([name |-> "StreamError"])
  /\ size > 0
  /\ outcome.kind = "rejected"

(***************************************************************************)
(* C3: an invocation with a delivery record sends exactly one GetObject,   *)
(* to the configured bucket and to the key prefix + messageId, where the   *)
(* prefix is "raw/" when none is configured.                               *)
(***************************************************************************)
C3_SingleGetAtPrefixedKey ==
  (Invoked /\ HasDeliveryRecord(event)) =>
    getRequests = <<[Bucket |-> Get(env.EMAIL_BUCKET),
                     Key |-> ConfiguredPrefix \o FirstMail.messageId]>>

\* A finished invocation under the default prefix.
C3_Witness ==
  /\ Finished
  /\ HasDeliveryRecord(event)
  /\ env.EMAIL_PREFIX = None
  /\ getRequests = <<[Bucket |-> "inbox", Key |-> "raw/m2"]>>

(***************************************************************************)
(* C4: a missing required setting (bucket name, ingestion endpoint URL or  *)
(* ingestion auth token) keeps the module from loading, and no GetObject   *)
(* is ever sent.                                                           *)
(***************************************************************************)
C4_MissingSettingIsFatal ==
  (\E k \in {"EMAIL_BUCKET", "INGEST_URL", "INGEST_TOKEN"} : ~Truthy(env[k])) =>
    /\ module # "loaded"
    /\ getRequests = <<>>

(***************************************************************************)
(* C5: for an event with several delivery records, the object fetched,     *)
(* the log output and the outcome are those of the first record alone.     *)
(***************************************************************************)
C5_OnlyFirstRecord ==
  (Invoked /\ HasDeliveryRecord(event) /\ Len(Get(event.Records)) >= 2) =>
    /\ LogsOn("warn") = {}
    /\ \A i \in 1..Len(getRequests) :
         getRequests[i].Key = EMAIL_PREFIX \o FirstMail.messageId
    /\ \A i \in LogsOn("log") :
         /\ logs[i].payload.messageId = FirstMail.messageId
         /\ logs[i].payload.objectKey = EMAIL_PREFIX \o FirstMail.messageId
         /\ logs[i].payload.recipients = FirstMail.destination
         /\ logs[i].payload.source = FirstMail.source
    /\ \A i \in LogsOn("error") :
         /\ logs[i].payload.messageId = FirstMail.messageId
         /\ logs[i].payload.objectKey = EMAIL_PREFIX \o FirstMail.messageId

\* A finished, successful invocation on two different delivery records.
C5_Witness ==
  /\ Finished
  /\ HasDeliveryRecord(event)
  /\ Len(Get(event.Records)) = 2
  /\ IsSome(Get(event.Records)[2].ses)
  /\ Get(event.Records)[2] # Get(event.Records)[1]
  /\ LogsOn("log") # {}

(***************************************************************************)
(* C6: an invocation with a delivery record completes successfully only if *)
(* it sent a single POST to the ingestion endpoint after the fetch.        *)
(***************************************************************************)
C6_SuccessOnlyAfterPost ==
  (Finished /\ HasDeliveryRecord(event) /\ outcome.kind = "resolved") =>
    Len(postRequests) = 1

(***************************************************************************)
(* C9: an invocation with a delivery record ends with exactly one outcome  *)
(* record: a success record (message id, object key, byte size,            *)
(* recipients, source, status), written after the fetch completed, if and  *)
(* only if fetch and size determination succeeded; otherwise an error      *)
(* record (message id, bucket, object key, error detail).                  *)
(***************************************************************************)
C9_ExactlyOneOutcomeRecord ==
  (Invoked /\ HasDeliveryRecord(event)) =>
    /\ Cardinality(LogsOn("log") \cup LogsOn("error")) <= 1
    /\ pc = "done" => Cardinality(LogsOn("log") \cup LogsOn("error")) = 1
    /\ pc = "done" => (LogsOn("log") # {} <=> raised = None)
    /\ \A i \in LogsOn("log") :
         /\ IsSome(response)
         /\ {"messageId", "objectKey", "size", "recipients", "source", "status"}
              \subseteq DOMAIN logs[i].payload
    /\ \A i \in LogsOn("error") :
         {"messageId", "bucket", "objectKey", "error"} \subseteq DOMAIN logs[i].payload

\* The same statement with the fields the success record does carry.
OutcomeRecordLemma ==
  (Invoked /\ HasDeliveryRecord(event)) =>
    /\ Cardinality(LogsOn("log") \cup LogsOn("error")) <= 1
    /\ pc = "done" => Cardinality(LogsOn("log") \cup LogsOn("error")) = 1
    /\ pc = "done" => (LogsOn("log") # {} <=> raised = None)
    /\ \A i \in LogsOn("log") :
         /\ IsSome(response)
         /\ DOMAIN logs[i].payload =
              {"level", "action", "messageId", "objectKey", "size", "recipients", "source"}
    /\ \A i \in LogsOn("error") :
         DOMAIN logs[i].payload = {"messageId", "bucket", "objectKey", "error"}

(***************************************************************************)
(* C10: the reported size is the ContentLength hint whenever one is        *)
(* supplied (0 included), the body being read only when the hint is        *)
(* absent; then the size is the byte length of the body's content, summed  *)
(* over the chunks of a stream, and 0 for an absent body.                  *)
(***************************************************************************)
C10_ReportedSize ==
  /\ bodyRead => (IsSome(response) /\ Get(response).ContentLength = None)
  /\ \A i \in LogsOn("log") :
       LET resp == Get(response)
       IN logs[i].payload.size =
            IF resp.ContentLength # None THEN Get(resp.ContentLength)
            ELSE BodyBytes(resp.Body)

\* A stream of two chunks, one of them holding a two-byte character, read
\* to its end without a hint.
C10_Witness ==
  /\ Finished
  /\ IsSome(response)
  /\ Get(response).ContentLength = None
  /\ Get(response).Body.kind = "readable"
  /\ Len(Get(response).Body.chunks) = 2
  /\ \E i \in LogsOn("log") :
       /\ logs[i].payload.size = SumBytes(Get(response).Body.chunks)
       /\ logs[i].payload.size > Len(Get(response).Body.chunks[1].data)
                                   + Len(Get(response).Body.chunks[2].data)

\* A hint of 0 beside a body that has content.
HintZeroReached ==
  /\ Finished
  /\ IsSome(response)
  /\ Get(response).ContentLength = Some(0)
  /\ BodyBytes(Get(response).Body) > 0
  /\ \E i \in LogsOn("log") : logs[i].payload.size = 0

(***************************************************************************)
(* C7: the resolved sender is the first address of the first source that   *)
(* yields one, in the order original-sender headers (in their listed       *)
(* order), From, Reply-To, commonHeadersFrom entries, lower-cased relay    *)
(* source, and finally unknown@sender; it is always present and non-empty, *)
(* and an original-sender header wins over From.                           *)
(***************************************************************************)
\* What each source yields, in the order of the cascade.
SourceYields(in) ==
  [i \in 1..Len(OriginalSenderHeaders) |->
     LET value == in.parsed.headers[OriginalSenderHeaders[i]]
     IN IF IsSome(value) THEN ParseAddressText(Get(value)) ELSE <<>>]
    \o <<Flatten(in.parsed.from), Flatten(in.parsed.replyTo)>>
    \o (IF IsSome(in.envelope.commonHeadersFrom)
          THEN [i \in 1..Len(Get(in.envelope.commonHeadersFrom)) |->
                  ParseAddressText(Get(in.envelope.commonHeadersFrom)[i])]
          ELSE <<>>)
    \o <<IF IsSome(in.envelope.source) /\ Get(in.envelope.source) # ""
           THEN <<[address |-> LowerCase(Get(in.envelope.source)), name |-> None]>>
           ELSE <<>>>>

EffectiveLimit(setting) ==
  IF setting = None THEN 20000
  ELSE IF ~Get(setting).numeric THEN 20000
  ELSE IF Get(setting).n <= 0 THEN 20000
  ELSE Get(setting).n

EmittedAsClaimed(body, emitted, limit) ==
  IF body = None \/ body = Some(<<>>) THEN emitted = None
  ELSE /\ emitted # None
       /\ emitted # Some(<<>>)
       /\ Len(Get(body)) <= limit => emitted = body
       /\ Len(Get(body)) > limit =>
            /\ Len(Get(emitted)) = limit
            /\ \A i \in 1..limit : Get(emitted)[i] = Get(body)[i]

C8_BodyTruncation ==
  (input.kind = "normalize" /\ IsSome(output)) =>
    /\ EmittedAsClaimed(input.text, Get(output).text, EffectiveLimit(input.setting))
    /\ EmittedAsClaimed(input.html, Get(output).html, EffectiveLimit(input.setting))

\* A text longer than the configured limit beside an empty HTML body.
C8_Witness ==
  /\ input.kind = "normalize"
  /\ IsSome(output)
  /\ input.setting = Some([numeric |-> TRUE, n |-> 2])
  /\ input.text = Some(<<"x", "y", "y">>)
  /\ input.html = Some(<<>>)
  /\ Get(output).text = Some(<<"x", "y">>)
  /\ Get(output).html = None

TypeOK ==
  /\ module \in {"unloaded", "loaded", "failed"}
  /\ pc \in {"idle", "awaitGet", "awaitBytes", "reading", "done"}
  /\ invocations \in 0..MaxInvocations
  /\ Len(getRequests) <= 1
====
